---- MODULE Spec2Model ----
(***************************************************************************)
(* BuzzyNotes license server: the license routes (scripts/license-api.js), *)
(* the PostgreSQL access layer (scripts/database.js) and the Stripe        *)
(* webhook (scripts/stripe-webhook.js), as a state machine over the two    *)
(* tables `users` and `user_data`.                                         *)
(*                                                                         *)
(* Strings that the code inspects character by character (emails, license  *)
(* keys, digests) are sequences of one-character strings.  Every `await`   *)
(* on a store statement is a step of its handler: statements of different  *)
(* requests interleave, each statement is atomic (autocommit).             *)
(***************************************************************************)
EXTENDS Integers, Sequences, FiniteSets, TLC

VARIABLES
    users,          \* table users: set of rows
    user_data,      \* table user_data: set of rows
    users_id_seq,   \* the SERIAL sequence behind users.id (last value handed out)
    checkedOut,     \* pool: connections checked out and not released
    pc,             \* per request: where its handler stands
    req,            \* per request: the request received
    resp,           \* per request: the response sent
    local,          \* per request: the handler's local `user` (existingUser.rows[0])
    users0,         \* the users table as the process found it at startup
    calls,          \* calls of generateEmailBasedLicense made directly: <<email, key>>
    store,          \* the PostgreSQL server: "up", "down" (refuses) or "hung" (silent)
    startup,        \* where startServer() stands
    databaseConnected,  \* server.js: let databaseConnected
    routes          \* what setupRoutes() registered under /api: license or fallback

vars ==
    <<users, user_data, users_id_seq, checkedOut, pc, req, resp, local, users0, calls,
      store, startup, databaseConnected, routes>>

\* The state of the process and of the server it talks to, which no request
\* handler writes.
process ==
    <<store, startup, databaseConnected, routes>>

(***************************************************************************)
(* Bounds                                                                  *)
(***************************************************************************)
\* Request slots of the full system: requests received over a run.
MaxReqs ==
    2

\* Concurrent request-license calls for one email.
MaxSame ==
    3

\* Direct calls of the key derivation in a run.
MaxCalls ==
    3

\* new Pool({ max: 20 })
PoolMax ==
    20

(***************************************************************************)
(* Strings                                                                 *)
(***************************************************************************)
LowerAlphabet ==
    <<"a","b","c","d","e","f","g","h","i","j","k","l","m",
      "n","o","p","q","r","s","t","u","v","w","x","y","z">>

UpperAlphabet ==
    <<"A","B","C","D","E","F","G","H","I","J","K","L","M",
      "N","O","P","Q","R","S","T","U","V","W","X","Y","Z">>

Digits ==
    {"0","1","2","3","4","5","6","7","8","9"}

\* The characters \s of a JavaScript regular expression that the inputs use.
Whitespace ==
    {" "}

IndexIn(alphabet, c) ==
    CHOOSE i \in 1..Len(alphabet) : alphabet[i] = c

InAlphabet(alphabet, c) ==
    \E i \in 1..Len(alphabet) : alphabet[i] = c

\* String.prototype.toLowerCase, on the ASCII characters of the inputs.
toLowerCase(s) ==
    [i \in 1..Len(s) |->
        IF InAlphabet(UpperAlphabet, s[i])
        THEN LowerAlphabet[IndexIn(UpperAlphabet, s[i])]
        ELSE s[i]]

\* String.prototype.toUpperCase.
toUpperCase(s) ==
    [i \in 1..Len(s) |->
        IF InAlphabet(LowerAlphabet, s[i])
        THEN UpperAlphabet[IndexIn(LowerAlphabet, s[i])]
        ELSE s[i]]

\* Mutant: `to` taken as the last index, not the one after it.
substringInclusive(s, from, to) ==
    SubSeq(s, from + 1, IF to + 1 > Len(s) THEN Len(s) ELSE to + 1)

\* String.prototype.substring(from, to), zero-based, `to` excluded and clamped.
substring(s, from, to) ==
    SubSeq(s, from + 1, IF to > Len(s) THEN Len(s) ELSE to)

\* chars.match(/.{1,4}/g): the greedy groups of up to four characters.
RECURSIVE matchGroups(_)
matchGroups(s) ==
    IF Len(s) = 0 THEN <<>>
    ELSE IF Len(s) <= 4 THEN <<s>>
    ELSE <<SubSeq(s, 1, 4)>> \o matchGroups(SubSeq(s, 5, Len(s)))

\* Array.prototype.join(sep).
RECURSIVE join(_, _)
join(groups, sep) ==
    IF Len(groups) = 0 THEN <<>>
    ELSE IF Len(groups) = 1 THEN groups[1]
    ELSE groups[1] \o sep \o join(Tail(groups), sep)

\* /^[^\s@]+@[^\s@]+\.[^\s@]+$/.test(s)
emailRegex(s) ==
    \E p \in 1..Len(s), q \in 1..Len(s) :
        /\ s[p] = "@"
        /\ s[q] = "."
        /\ 1 < p
        /\ p + 1 < q
        /\ q < Len(s)
        /\ \A i \in 1..Len(s) : i # p => s[i] \notin ({"@"} \cup Whitespace)

(***************************************************************************)
(* Emails the requests carry                                               *)
(***************************************************************************)
EmailLower ==
    <<"a","@","b",".","c">>

EmailUpper ==
    <<"A","@","b",".","c">>

EmailAllUpper ==
    <<"A","@","B",".","C">>

EmailOther ==
    <<"x","@","y",".","z">>

EmailOtherUpper ==
    <<"X","@","y",".","z">>

EmailExample ==
    <<"t","e","s","t","@","e","x","a","m","p","l","e",".","c","o","m">>

(***************************************************************************)
(* Key derivation                                                          *)
(***************************************************************************)
\* crypto.createHash('md5').update(s).digest('hex'): the MD5 digests of the
\* strings the model feeds it, as the 32 lower-case hex characters Node returns.
md5hex(s) ==
    CASE s = EmailLower ->
        <<"5","d","6","0","d","4","e","2","8","0","6","6","d","f","2","5","4","d","5","4","5","2","f","9","2","c","9","1","0","0","9","2">>
      [] s = EmailUpper ->
        <<"2","6","f","2","a","2","0","c","8","b","6","8","8","2","a","6","8","5","a","8","3","e","b","2","1","c","9","9","4","9","b","9">>
      [] s = EmailAllUpper ->
        <<"3","7","2","7","4","c","9","4","3","0","3","1","3","7","9","b","2","3","f","9","f","6","8","1","c","e","5","c","2","e","b","0">>
      [] s = EmailOther ->
        <<"6","3","a","1","9","c","c","8","0","8","0","6","7","5","4","d","7","1","c","b","1","c","b","8","d","5","6","2","f","6","d","f">>
      [] s = EmailOtherUpper ->
        <<"5","8","c","a","4","3","a","f","4","7","0","2","2","7","e","7","d","4","8","8","7","a","d","a","3","5","6","c","2","8","1","0">>
      [] s = EmailExample ->
        <<"5","5","5","0","2","f","4","0","d","c","8","b","7","c","7","6","9","8","8","0","b","1","0","8","7","4","a","b","c","9","d","0">>

\* The empty string (a missing or empty `email` field is falsy).
EmailEmpty ==
    <<>>

\* No "@": rejected by the handlers' emailRegex.
EmailMalformed ==
    <<"a","b">>

\* Mutant: the digest of the email as given, not lower-cased.
generateLicenseCaseSensitive(email) ==
    LET hash  == md5hex(email)
        chars == SubSeq(toUpperCase(hash), 1, 16)
    IN  join(matchGroups(chars), <<"-">>)

\* Function to generate the license from the email (deterministic).
generateEmailBasedLicense(email) ==
    LET hash  == md5hex(toLowerCase(email))
        chars == substring(toUpperCase(hash), 0, 16)
    IN  join(matchGroups(chars), <<"-">>)

(***************************************************************************)
(* Values                                                                  *)
(***************************************************************************)
\* A license key in the format XXXX-XXXX-XXXX-XXXX, all sixteen characters c.
KeyOfChar(c) ==
    [i \in 1..19 |-> IF i \in {5, 10, 15} THEN "-" ELSE c]

\* A missing `licenseKey` field.
KeyEmpty ==
    <<>>

\* Emails of well-formed requests, and all the `email` fields requests carry.
Emails ==
    {EmailLower, EmailUpper, EmailOther}

EmailInputs ==
    Emails \cup {EmailEmpty, EmailMalformed}

\* License keys that callers send and that generateLicenseKey can draw: the two
\* derived keys (sixteen characters of [0-9A-F] are sixteen of [A-Z0-9]) and a
\* key no email derives.
Keys ==
    {generateEmailBasedLicense(EmailLower), generateEmailBasedLicense(EmailOther),
     KeyOfChar("Z")}

DataTypes ==
    {"notes"}

\* Payloads of an upload; NoData is a missing `data` field.
NoData ==
    "undefined"

Contents ==
    {"c1", "c2"}

Statuses ==
    {"active", "inactive"}

\* JavaScript values of a response field that may be missing.
JsUndefined ==
    [typeof |-> "undefined", value |-> 0]

JsFalse ==
    [typeof |-> "boolean", value |-> 0]

JsTimestamp(t) ==
    [typeof |-> "object", value |-> t]

NoUser ==
    [id |-> 0, license_key |-> KeyEmpty, email |-> EmailEmpty, status |-> "none",
     created_at |-> 0]

NoReq ==
    [op |-> "none", email |-> EmailEmpty, licenseKey |-> KeyEmpty,
     dataType |-> "none", data |-> NoData, event |-> "none", signed |-> TRUE,
     subStatus |-> "none", referrer |-> <<>>, query |-> {}]

NoResp ==
    [status |-> 0, message |-> "none", licenseKey |-> KeyEmpty,
     licStatus |-> "undefined", created |-> JsUndefined, data |-> "undefined"]

\* res.status(code).json({...}): the fields of the body the callers read.
Reply(code, message) ==
    [NoResp EXCEPT !.status = code, !.message = message]

(***************************************************************************)
(* The store: PostgreSQL statements, each atomic                           *)
(***************************************************************************)
\* CREATE TABLE users: a row; created_at is the tick of the insert (the id
\* drawn from the sequence), plan_type and updated_at are left out.
UserRow(id, key, email, status) ==
    [id |-> id, license_key |-> key, email |-> email, status |-> status,
     created_at |-> id]

\* Whether a users row holds the key.
HasKey(table, key) ==
    \E u \in table : u.license_key = key

\* Mutant: the table as it would be without UNIQUE on license_key.
UniqueViolationNever(table, key) ==
    FALSE

\* users.license_key VARCHAR(255) UNIQUE NOT NULL: a second row with the key
\* is refused with error 23505.
UniqueViolation(table, key) ==
    HasKey(table, key)

\* CREATE TABLE user_data: its unique constraints, as column lists.  The table
\* has PRIMARY KEY (id) and three plain indexes; none is unique on
\* (license_key, data_type).
UserDataUniqueConstraints ==
    {<<"id">>}

\* SELECT ... FROM users WHERE email = $1 (VARCHAR equality: case-sensitive).
SelectByEmail(table, email) ==
    {u \in table : u.email = email}

\* SELECT ... FROM users WHERE license_key = $1 AND status = 'active'
SelectActiveByKey(table, key) ==
    {u \in table : u.license_key = key /\ u.status = "active"}

\* INSERT INTO users (license_key, email, status, plan_type)
\* VALUES ($1, $2, 'active', 'premium'), when no row holds the key.
InsertUser(table, id, key, email) ==
    table \cup {UserRow(id, key, email, "active")}

\* Mutant: the upsert adds its row whether or not the key is held.
UpsertUserInsertOnly(table, id, key, email) ==
    table \cup {UserRow(id, key, email, "active")}

\* Mutant: a row holding the key is deleted and a new one inserted.
UpsertUserReplace(table, id, key, email) ==
    {u \in table : u.license_key # key} \cup {UserRow(id, key, email, "active")}

\* INSERT ... ON CONFLICT (license_key) DO UPDATE SET email = EXCLUDED.email,
\* status = 'active': a row holding the key keeps its id and takes the email.
UpsertUser(table, id, key, email) ==
    IF UniqueViolation(table, key)
    THEN {IF u.license_key = key
          THEN [u EXCEPT !.email = email, !.status = "active"]
          ELSE u : u \in table}
    ELSE InsertUser(table, id, key, email)

\* UPDATE users SET status = 'active' WHERE email = $2
ReactivateByEmail(table, email) ==
    {IF u.email = email THEN [u EXCEPT !.status = "active"] ELSE u : u \in table}

\* DELETE FROM users WHERE email = $1
DeleteByEmail(table, email) ==
    {u \in table : u.email # email}

\* Mutant: the foreign key without ON DELETE CASCADE and unchecked.
CascadeNone(data, table) ==
    data

\* FOREIGN KEY (license_key) REFERENCES users(license_key) ON DELETE CASCADE:
\* the user_data rows left when `table` is what remains of users.
Cascade(data, table) ==
    {d \in data : \E u \in table : u.license_key = d.license_key}

\* INSERT INTO user_data ... ON CONFLICT (license_key, data_type) DO UPDATE SET
\* content = EXCLUDED.content, once the statement is accepted.
UpsertUserData(data, key, dataType, content) ==
    {d \in data : ~(d.license_key = key /\ d.data_type = dataType)}
        \cup {[license_key |-> key, data_type |-> dataType, content |-> content]}

\* Mutant: the INSERT without its ON CONFLICT clause: always a new row.
InsertUserDataPlain(data, constraints, key, dataType, content) ==
    [accepted |-> TRUE,
     rows |-> data \cup {[license_key |-> key, data_type |-> dataType,
                          content |-> content]}]

\* The INSERT ... ON CONFLICT (license_key, data_type) statement against a
\* table with the given unique constraints: PostgreSQL accepts it only when
\* one of them is on exactly the columns of the conflict target (else error
\* 42P10, raised whatever the rows are).
InsertUserDataOnConflict(data, constraints, key, dataType, content) ==
    IF <<"license_key", "data_type">> \in constraints
    THEN [accepted |-> TRUE, rows |-> UpsertUserData(data, key, dataType, content)]
    ELSE [accepted |-> FALSE, rows |-> data]

\* SELECT content FROM user_data WHERE license_key = $1 AND data_type = $2
SelectUserData(data, key, dataType) ==
    {d \in data : d.license_key = key /\ d.data_type = dataType}

(***************************************************************************)
(* Requests                                                                *)
(***************************************************************************)
\* A request is received in a free slot; slots are taken in order.
Free(r) ==
    /\ startup = "listening"
    /\ pc[r] = "idle"
    /\ r > 1 => pc[r - 1] # "idle"
    /\ UNCHANGED process

\* The handler of r answers and ends.
Respond(r, answer) ==
    /\ resp' = [resp EXCEPT ![r] = answer]
    /\ pc' = [pc EXCEPT ![r] = "done"]

Receive(r, request) ==
    req' = [req EXCEPT ![r] = request]

\* pool.connect() rejects when every connection is checked out
\* (connectionTimeoutMillis: 10000).
PoolExhausted ==
    checkedOut >= PoolMax

\* pool.connect() rejects: the pool is exhausted, the server refuses the
\* connection, or it does not answer within connectionTimeoutMillis.
ConnectFails ==
    PoolExhausted \/ store # "up"

\* client.query() on a client already checked out rejects.
QueryFails ==
    store = "down"

\* client.query() on a client already checked out gets no answer; no
\* statement_timeout or query_timeout is configured, so the await never ends.
QueryHangs ==
    store = "hung"

\* Mutant: the SELECT without its `AND status = $2`.
verifyLicenseAnyStatus(key) ==
    /\ ~ConnectFails
    /\ \E u \in users : u.license_key = key

\* verifyLicense(licenseKey): connect, SELECT, release in `finally`; an error
\* of the store is caught and answered { valid: false }.
verifyLicense(key) ==
    /\ ~ConnectFails
    /\ SelectActiveByKey(users, key) # {}

(***************************************************************************)
(* POST /api/request-license                                               *)
(***************************************************************************)
\* Validation, pool.connect() and the SELECT by email; a row found is answered.
RequestLicenseSelect(r, email) ==
    /\ Free(r)
    /\ routes = "license"
    /\ Receive(r, [NoReq EXCEPT !.op = "request-license", !.email = email])
    /\ UNCHANGED <<users, user_data, users_id_seq, local, users0, calls>>
    /\ IF email = EmailEmpty
       THEN Respond(r, Reply(400, "Email is required")) /\ UNCHANGED checkedOut
       ELSE IF ~emailRegex(email)
       THEN Respond(r, Reply(400, "Invalid email format")) /\ UNCHANGED checkedOut
       ELSE IF ConnectFails
       THEN Respond(r, Reply(500, "Failed to process license request"))
            /\ UNCHANGED checkedOut
       ELSE IF SelectByEmail(users, email) # {}
       THEN \E user \in SelectByEmail(users, email) :
                /\ Respond(r, [Reply(200, "License found for this email") EXCEPT
                                  !.licenseKey = user.license_key,
                                  !.licStatus = user.status,
                                  !.created = JsTimestamp(user.created_at)])
                /\ UNCHANGED checkedOut
       ELSE /\ pc' = [pc EXCEPT ![r] = "rl_insert"]
            /\ checkedOut' = checkedOut + 1
            /\ UNCHANGED resp

\* The derived key and the INSERT; the catch block answers 500 and does not
\* release the client.
RequestLicenseInsert(r) ==
    /\ pc[r] = "rl_insert"
    /\ ~QueryHangs
    /\ UNCHANGED <<user_data, req, local, users0, calls, process>>
    /\ users_id_seq' = IF QueryFails THEN users_id_seq ELSE users_id_seq + 1
    /\ LET licenseKey == generateEmailBasedLicense(req[r].email)
       IN  IF QueryFails \/ UniqueViolation(users, licenseKey)
           THEN /\ Respond(r, Reply(500, "Failed to process license request"))
                /\ UNCHANGED <<users, checkedOut>>
           ELSE /\ users' = InsertUser(users, users_id_seq', licenseKey, req[r].email)
                /\ checkedOut' = checkedOut - 1
                /\ Respond(r, [Reply(200, "License created successfully") EXCEPT
                                  !.licenseKey = licenseKey])

(***************************************************************************)
(* POST /api/generate-license                                              *)
(***************************************************************************)
GenerateLicenseSelect(r, email) ==
    /\ Free(r)
    /\ routes = "license"
    /\ Receive(r, [NoReq EXCEPT !.op = "generate-license", !.email = email])
    /\ UNCHANGED <<users, user_data, users_id_seq, users0, calls>>
    /\ IF email = EmailEmpty
       THEN Respond(r, Reply(400, "Email is required"))
            /\ UNCHANGED <<checkedOut, local>>
       ELSE IF ~emailRegex(email)
       THEN Respond(r, Reply(400, "Invalid email format"))
            /\ UNCHANGED <<checkedOut, local>>
       ELSE IF ConnectFails
       THEN Respond(r, Reply(500, "Failed to generate license"))
            /\ UNCHANGED <<checkedOut, local>>
       ELSE IF SelectByEmail(users, email) # {}
       THEN \E user \in SelectByEmail(users, email) :
                IF user.status = "active"
                THEN /\ Respond(r, [Reply(200, "License already exists for this email")
                                       EXCEPT !.licenseKey = user.license_key])
                     /\ UNCHANGED <<checkedOut, local>>
                ELSE /\ pc' = [pc EXCEPT ![r] = "gl_update"]
                     /\ local' = [local EXCEPT ![r] = user]
                     /\ checkedOut' = checkedOut + 1
                     /\ UNCHANGED resp
       ELSE /\ pc' = [pc EXCEPT ![r] = "gl_insert"]
            /\ checkedOut' = checkedOut + 1
            /\ UNCHANGED <<resp, local>>

\* Reactivate the existing license; an error of the UPDATE is answered 500 by
\* the catch block, which does not release the client.
GenerateLicenseUpdate(r) ==
    /\ pc[r] = "gl_update"
    /\ ~QueryHangs
    /\ UNCHANGED <<user_data, users_id_seq, req, local, users0, calls, process>>
    /\ IF QueryFails
       THEN /\ Respond(r, Reply(500, "Failed to generate license"))
            /\ UNCHANGED <<users, checkedOut>>
       ELSE /\ users' = ReactivateByEmail(users, req[r].email)
            /\ checkedOut' = checkedOut - 1
            /\ Respond(r, [Reply(200, "License reactivated") EXCEPT
                              !.licenseKey = local[r].license_key])

GenerateLicenseInsert(r) ==
    /\ pc[r] = "gl_insert"
    /\ ~QueryHangs
    /\ UNCHANGED <<user_data, req, local, users0, calls, process>>
    /\ users_id_seq' = IF QueryFails THEN users_id_seq ELSE users_id_seq + 1
    /\ LET licenseKey == generateEmailBasedLicense(req[r].email)
       IN  IF QueryFails
           THEN /\ Respond(r, Reply(500, "Failed to generate license"))
                /\ UNCHANGED <<users, checkedOut>>
           ELSE IF UniqueViolation(users, licenseKey)
           THEN /\ Respond(r, Reply(409, "License generation conflict. Please try again."))
                /\ UNCHANGED <<users, checkedOut>>
           ELSE /\ users' = InsertUser(users, users_id_seq', licenseKey, req[r].email)
                /\ checkedOut' = checkedOut - 1
                /\ Respond(r, [Reply(200, "License generated successfully") EXCEPT
                                  !.licenseKey = licenseKey])

(***************************************************************************)
(* POST /api/activate-license                                              *)
(***************************************************************************)
\* activateLicense(licenseKey, email): connect, the upsert, release in `finally`;
\* a failed connect is rethrown and answered 500.
ActivateLicense(r, key, email) ==
    /\ Free(r)
    /\ routes = "license"
    /\ Receive(r, [NoReq EXCEPT !.op = "activate-license", !.licenseKey = key,
                                !.email = email])
    /\ UNCHANGED <<user_data, checkedOut, local, users0, calls>>
    /\ IF key = KeyEmpty \/ email = EmailEmpty
       THEN Respond(r, Reply(400, "License key and email are required"))
            /\ UNCHANGED <<users, users_id_seq>>
       ELSE IF ~emailRegex(email)
       THEN Respond(r, Reply(400, "Invalid email format"))
            /\ UNCHANGED <<users, users_id_seq>>
       ELSE IF ConnectFails
       THEN Respond(r, Reply(500, "Failed to activate license"))
            /\ UNCHANGED <<users, users_id_seq>>
       ELSE /\ users_id_seq' = users_id_seq + 1
            /\ users' = UpsertUser(users, users_id_seq', key, email)
            /\ Respond(r, Reply(200, "License activated successfully"))

(***************************************************************************)
(* POST /api/verify-license                                                *)
(***************************************************************************)
VerifyLicense(r, key) ==
    /\ Free(r)
    /\ routes = "license"
    /\ Receive(r, [NoReq EXCEPT !.op = "verify-license", !.licenseKey = key])
    /\ UNCHANGED <<users, user_data, users_id_seq, checkedOut, local, users0, calls>>
    /\ IF key = KeyEmpty
       THEN Respond(r, Reply(400, "Invalid license key format"))
       ELSE IF verifyLicense(key)
       THEN Respond(r, Reply(200, "License is valid"))
       ELSE Respond(r, Reply(404, "License not found or inactive"))

(***************************************************************************)
(* POST /api/sync/upload                                                   *)
(***************************************************************************)
\* Validation and the handler's verifyLicense.
UploadVerify(r, key, dataType, data) ==
    /\ Free(r)
    /\ routes = "license"
    /\ Receive(r, [NoReq EXCEPT !.op = "upload", !.licenseKey = key,
                                !.dataType = dataType, !.data = data])
    /\ UNCHANGED <<users, user_data, users_id_seq, checkedOut, local, users0, calls>>
    /\ IF key = KeyEmpty \/ data = NoData
       THEN Respond(r, Reply(400, "License key and data are required"))
       ELSE IF ~verifyLicense(key)
       THEN Respond(r, Reply(403, "Invalid or inactive license"))
       ELSE pc' = [pc EXCEPT ![r] = "up_check"] /\ UNCHANGED resp

\* saveUserData: connect and its own SELECT of the active license; without
\* one it throws, the client is released and the handler answers 500.
UploadCheck(r) ==
    /\ pc[r] = "up_check"
    /\ UNCHANGED <<users, user_data, users_id_seq, req, local, users0, calls, process>>
    /\ IF ConnectFails \/ SelectActiveByKey(users, req[r].licenseKey) = {}
       THEN Respond(r, Reply(500, "Failed to upload data")) /\ UNCHANGED checkedOut
       ELSE /\ pc' = [pc EXCEPT ![r] = "up_upsert"]
            /\ checkedOut' = checkedOut + 1
            /\ UNCHANGED resp

\* saveUserData: the INSERT ... ON CONFLICT (license_key, data_type).  The
\* statement is rejected (42P10) unless a unique constraint matches the
\* conflict target, and (23503) when no users row holds the key any more.
UploadUpsert(r) ==
    /\ pc[r] = "up_upsert"
    /\ ~QueryHangs
    /\ checkedOut' = checkedOut - 1
    /\ UNCHANGED <<users, users_id_seq, req, local, users0, calls, process>>
    /\ LET result == InsertUserDataOnConflict(user_data, UserDataUniqueConstraints,
                                              req[r].licenseKey, req[r].dataType,
                                              req[r].data)
       IN  IF /\ ~QueryFails
              /\ result.accepted
              /\ HasKey(users, req[r].licenseKey)
           THEN /\ user_data' = result.rows
                /\ Respond(r, Reply(200, "Data uploaded successfully"))
           ELSE /\ Respond(r, Reply(500, "Failed to upload data"))
                /\ UNCHANGED user_data

(***************************************************************************)
(* GET /api/sync/download/:licenseKey                                      *)
(***************************************************************************)
DownloadVerify(r, key, dataType) ==
    /\ Free(r)
    /\ routes = "license"
    /\ Receive(r, [NoReq EXCEPT !.op = "download", !.licenseKey = key,
                                !.dataType = dataType])
    /\ UNCHANGED <<users, user_data, users_id_seq, checkedOut, local, users0, calls>>
    /\ IF ~verifyLicense(key)
       THEN Respond(r, Reply(403, "Invalid or inactive license"))
       ELSE pc' = [pc EXCEPT ![r] = "dl_get"] /\ UNCHANGED resp

\* Mutant: no row is an error, thrown to the caller.
getUserDataThrows(rows, failed) ==
    IF failed THEN {"null"}
    ELSE IF rows = {} THEN {"throw"}
    ELSE {row.content : row \in rows}

\* getUserData(licenseKey, dataType): what it can return given the rows of the
\* SELECT: the content of a row, or null when there is none and when the
\* store call fails (the error is caught and logged).
getUserData(rows, failed) ==
    IF failed \/ rows = {}
    THEN {"null"}
    ELSE {row.content : row \in rows}

\* The second await of the handler: getUserData and the answer; the catch
\* block answers 500 on a throw.
DownloadGet(r) ==
    /\ pc[r] = "dl_get"
    /\ UNCHANGED <<users, user_data, users_id_seq, checkedOut, req, local, users0, calls,
                   process>>
    /\ LET rows == SelectUserData(user_data, req[r].licenseKey, req[r].dataType)
       IN  \E userData \in getUserData(rows, ConnectFails) :
               IF userData = "throw"
               THEN Respond(r, Reply(500, "Failed to download data"))
               ELSE IF userData = "null"
               THEN Respond(r, [Reply(200, "No data found for this license") EXCEPT
                                   !.data = "null"])
               ELSE Respond(r, [Reply(200, "data") EXCEPT !.data = userData])

(***************************************************************************)
(* POST /api/dev/reset-email                                               *)
(***************************************************************************)
ResetEmail(r, email) ==
    /\ Free(r)
    /\ routes = "license"
    /\ Receive(r, [NoReq EXCEPT !.op = "reset-email", !.email = email])
    /\ UNCHANGED <<users_id_seq, checkedOut, local, users0, calls>>
    /\ IF email = EmailEmpty
       THEN Respond(r, Reply(400, "Email is required"))
            /\ UNCHANGED <<users, user_data>>
       ELSE IF ConnectFails
       THEN Respond(r, Reply(500, "Failed to reset email"))
            /\ UNCHANGED <<users, user_data>>
       ELSE /\ users' = DeleteByEmail(users, email)
            /\ user_data' = Cascade(user_data, users')
            /\ Respond(r, Reply(200, "reset successfully"))

(***************************************************************************)
(* POST /webhook (Stripe configured)                                       *)
(***************************************************************************)
EventTypes ==
    {"checkout.session.completed", "invoice.payment_succeeded",
     "customer.subscription.created", "customer.subscription.updated",
     "customer.subscription.deleted", "charge.refunded"}

\* generateLicenseKey(): sixteen characters drawn with Math.random(); any key
\* of the format can come out.
generateLicenseKey ==
    Keys

\* subscription.status of the events that carry a subscription; "none" on the
\* others.
SubscriptionStatuses ==
    {"active", "past_due", "canceled"}

\* Mutant: an event is built whatever the signature.
constructEventUnverified(signed) ==
    TRUE

\* stripe.webhooks.constructEvent(req.body, sig, endpointSecret): the event
\* when the signature verifies; it throws otherwise.
constructEvent(signed) ==
    signed

\* handleCheckoutCompleted(session): no email, nothing done; else a drawn key
\* and activateLicense, whose error is logged and dropped.
handleCheckoutCompleted(table, id, email, key) ==
    IF email = EmailEmpty \/ ConnectFails
    THEN table
    ELSE UpsertUser(table, id, key, email)

\* handlePaymentSucceeded(invoice): logs the customer of a recurring payment.
handlePaymentSucceeded(table, customer) ==
    table

\* handleSubscriptionCreated(subscription): logs the status.
handleSubscriptionCreated(table, customer, status) ==
    table

\* handleSubscriptionUpdated(subscription): logs when the status is 'active'
\* and when it is 'past_due'.
handleSubscriptionUpdated(table, customer, status) ==
    IF status = "active"
    THEN table
    ELSE IF status = "past_due" THEN table ELSE table

\* Mutant: the cancellation sets the customer's licenses inactive.
handleSubscriptionCanceledDeactivates(table, customer) ==
    {IF u.email = customer THEN [u EXCEPT !.status = "inactive"] ELSE u : u \in table}

\* handleSubscriptionCanceled(subscription): logs the customer.
handleSubscriptionCanceled(table, customer) ==
    table

\* Mutant: an event type without a case is handled as a completed checkout.
switchEventTypeNoDefault(table, id, type, email, key, status) ==
    CASE type = "invoice.payment_succeeded" -> table
      [] type = "customer.subscription.created" -> table
      [] type = "customer.subscription.updated" -> table
      [] type = "customer.subscription.deleted" -> table
      [] OTHER -> UpsertUser(table, id, key, email)

\* switch (event.type): the users table after the handler of the event; the
\* default case logs.  `email` is session.customer_details.email of a checkout
\* session and, on the other events, the email of the customer whose id the
\* event carries.
switchEventType(table, id, type, email, key, status) ==
    CASE type = "checkout.session.completed" ->
            handleCheckoutCompleted(table, id, email, key)
      [] type = "invoice.payment_succeeded" -> handlePaymentSucceeded(table, email)
      [] type = "customer.subscription.created" ->
            handleSubscriptionCreated(table, email, status)
      [] type = "customer.subscription.updated" ->
            handleSubscriptionUpdated(table, email, status)
      [] type = "customer.subscription.deleted" ->
            handleSubscriptionCanceled(table, email)
      [] OTHER -> table

\* The webhook route: a bad signature is answered 400; else the event is
\* handled and acknowledged with { received: true }.
Webhook(r, signed, type, email, status) ==
    /\ Free(r)
    /\ Receive(r, [NoReq EXCEPT !.op = "webhook", !.signed = signed, !.event = type,
                                !.email = email, !.subStatus = status])
    /\ UNCHANGED <<user_data, checkedOut, local, users0, calls>>
    /\ IF ~constructEvent(signed)
       THEN Respond(r, Reply(400, "Webhook Error")) /\ UNCHANGED <<users, users_id_seq>>
       ELSE /\ Respond(r, Reply(200, "received"))
            /\ \E key \in generateLicenseKey :
                   /\ users_id_seq' =
                          IF /\ type = "checkout.session.completed"
                             /\ email # EmailEmpty
                             /\ ~ConnectFails
                          THEN users_id_seq + 1 ELSE users_id_seq
                   /\ users' = switchEventType(users, users_id_seq', type, email, key,
                                               status)

(***************************************************************************)
(* The PostgreSQL server                                                   *)
(***************************************************************************)
StoreStates ==
    {"up", "down", "hung"}

\* The server goes down, stops answering, or comes back.
Outage(to) ==
    /\ to # store
    /\ store' = to
    /\ UNCHANGED <<users, user_data, users_id_seq, checkedOut, pc, req, resp, local,
                   users0, calls, startup, databaseConnected, routes>>

(***************************************************************************)
(* server.js: startServer, setupRoutes, GET /health                        *)
(***************************************************************************)
\* testConnection(): true when connect and SELECT version() succeed; then
\* initializeDatabase() is awaited, else databaseConnected keeps false.
TestConnection ==
    /\ startup = "testConnection"
    /\ startup' = IF ConnectFails THEN "setupRoutes" ELSE "initializeDatabase"
    /\ UNCHANGED <<users, user_data, users_id_seq, checkedOut, pc, req, resp, local,
                   users0, calls, store, databaseConnected, routes>>

\* databaseConnected = await initializeDatabase(): true when the tables are
\* there, false when a statement failed (the error is caught inside).
InitializeDatabase ==
    /\ startup = "initializeDatabase"
    /\ databaseConnected' = ~ConnectFails
    /\ startup' = "setupRoutes"
    /\ UNCHANGED <<users, user_data, users_id_seq, checkedOut, pc, req, resp, local,
                   users0, calls, store, routes>>

\* Mutant: the license routes are registered whatever the flag.
setupRoutesUnconditional(connected) ==
    "license"

\* setupRoutes(): if (databaseConnected) setupLicenseRoutes(app), else the two
\* fallback routes.
setupRoutes(connected) ==
    IF connected THEN "license" ELSE "fallback"

\* setupRoutes() and app.listen().
SetupRoutes ==
    /\ startup = "setupRoutes"
    /\ routes' = setupRoutes(databaseConnected)
    /\ startup' = "listening"
    /\ UNCHANGED <<users, user_data, users_id_seq, checkedOut, pc, req, resp, local,
                   users0, calls, store, databaseConnected>>

\* GET /health: database: databaseConnected ? 'connected' : 'disconnected'
Health(r) ==
    /\ Free(r)
    /\ Receive(r, [NoReq EXCEPT !.op = "health"])
    /\ Respond(r, Reply(200, IF databaseConnected THEN "connected" ELSE "disconnected"))
    /\ UNCHANGED <<users, user_data, users_id_seq, checkedOut, local, users0, calls>>

\* The fallback routes registered without a database: verify-license and
\* activate-license answer 503.
Fallback(r, op) ==
    /\ Free(r)
    /\ routes = "fallback"
    /\ op \in {"verify-license", "activate-license"}
    /\ Receive(r, [NoReq EXCEPT !.op = op])
    /\ Respond(r, Reply(503, "Database not available"))
    /\ UNCHANGED <<users, user_data, users_id_seq, checkedOut, local, users0, calls>>

\* app.use('*'): a route that is not registered answers 404.
NotFound(r, op) ==
    /\ Free(r)
    /\ routes = "fallback"
    /\ op \in {"request-license", "generate-license", "upload", "download",
               "reset-email"}
    /\ Receive(r, [NoReq EXCEPT !.op = op])
    /\ Respond(r, Reply(404, "Endpoint not found"))
    /\ UNCHANGED <<users, user_data, users_id_seq, checkedOut, local, users0, calls>>

(***************************************************************************)
(* GET /generate                                                           *)
(***************************************************************************)
\* String.prototype.includes(sub)
includes(s, sub) ==
    \E i \in 0..(Len(s) - Len(sub)) : SubSeq(s, i + 1, i + Len(sub)) = sub

validReferrers ==
    {<<"s", "t", "r", "i", "p", "e", ".", "c", "o", "m">>,
     <<"c", "h", "e", "c", "k", "o", "u", "t", ".", "s", "t", "r", "i", "p", "e", ".", "c", "o", "m">>,
     <<"b", "u", "y", ".", "s", "t", "r", "i", "p", "e", ".", "c", "o", "m">>,
     <<"j", "s", ".", "s", "t", "r", "i", "p", "e", ".", "c", "o", "m">>}

\* The Referer header of a request: absent, a page of the payment provider,
\* or a page of another site.
ReferrerNone ==
    <<>>

ReferrerStripe ==
    <<"h", "t", "t", "p", "s", ":", "/", "/", "b", "u", "y", ".", "s", "t", "r", "i", "p", "e", ".", "c", "o", "m", "/">>

ReferrerOther ==
    <<"h", "t", "t", "p", "s", ":", "/", "/", "e", "v", "i", "l", ".", "i", "o", "/">>

Referrers ==
    {ReferrerNone, ReferrerStripe, ReferrerOther}

\* req.query: which of the flags debug and bypass the URL carries.
Queries ==
    SUBSET {"debug", "bypass"}

\* validReferrers.some(domain => referrer.includes(domain))
isFromStripe(referrer) ==
    \E domain \in validReferrers : includes(referrer, domain)

\* !referrer || referrer === ''
isDirectAccess(referrer) ==
    referrer = <<>>

\* if (isDirectAccess && !req.query.debug && !req.query.bypass): the request
\* gets the payment-required page.  isFromStripe is computed and not read.
blocked(referrer, query) ==
    isDirectAccess(referrer) /\ query = {}

\* The handler: the payment-required page or the license form, both by
\* res.send (status 200).  The route is one of setupLicenseRoutes.
GeneratePage(r, referrer, query) ==
    /\ Free(r)
    /\ routes = "license"
    /\ Receive(r, [NoReq EXCEPT !.op = "generate", !.referrer = referrer,
                                !.query = query])
    /\ UNCHANGED <<users, user_data, users_id_seq, checkedOut, local, users0, calls>>
    /\ IF blocked(referrer, query)
       THEN Respond(r, Reply(200, "Payment Required"))
       ELSE Respond(r, Reply(200, "Generate BuzzyNotes License"))

(***************************************************************************)
(* Direct calls of the key derivation                                      *)
(***************************************************************************)
DeriveInputs ==
    {EmailLower, EmailUpper, EmailAllUpper, EmailOther, EmailOtherUpper, EmailExample}

Derive(email) ==
    /\ Len(calls) < MaxCalls
    /\ calls' = Append(calls, <<email, generateEmailBasedLicense(email)>>)
    /\ UNCHANGED <<users, user_data, users_id_seq, checkedOut, pc, req, resp, local,
                   users0, process>>

(***************************************************************************)
(* Specifications                                                          *)
(***************************************************************************)
\* The users table the process finds: empty, or one row left by an earlier
\* run (any key and email through activate-license) or set inactive by the
\* operator; the program itself reads status 'inactive' and never writes it.
InitialStores ==
    {{}} \cup {{UserRow(1, k, e, s)} : k \in Keys, e \in Emails, s \in Statuses}

\* No request received yet in any of n slots, no client checked out.
InitRequests(n) ==
    /\ checkedOut = 0
    /\ pc = [r \in 1..n |-> "idle"]
    /\ req = [r \in 1..n |-> NoReq]
    /\ resp = [r \in 1..n |-> NoResp]
    /\ local = [r \in 1..n |-> NoUser]
    /\ calls = <<>>

\* The process after a startup that found the database: the license routes
\* are registered and the server listens.
Listening ==
    /\ store = "up"
    /\ startup = "listening"
    /\ databaseConnected = TRUE
    /\ routes = "license"

InitWith(stores, n) ==
    /\ users \in stores
    /\ users0 = users
    /\ user_data = {}
    /\ users_id_seq = Cardinality(users)
    /\ InitRequests(n)
    /\ Listening

\* The whole server: any requests, their statements interleaved.
Init ==
    InitWith(InitialStores, MaxReqs)

ActivateInputs ==
    (Keys \X Emails) \cup {<<KeyEmpty, EmailLower>>}

WebhookInputs ==
    ({TRUE} \X EventTypes \X {EmailEmpty} \X {"none"})
        \cup ({TRUE} \X {"checkout.session.completed"} \X Emails \X {"none"})
        \cup {<<FALSE, "checkout.session.completed", EmailLower, "none">>}

Next ==
    \/ \E r \in DOMAIN pc, email \in EmailInputs : RequestLicenseSelect(r, email)
    \/ \E r \in DOMAIN pc : RequestLicenseInsert(r)
    \/ \E r \in DOMAIN pc, email \in EmailInputs : GenerateLicenseSelect(r, email)
    \/ \E r \in DOMAIN pc : GenerateLicenseUpdate(r)
    \/ \E r \in DOMAIN pc : GenerateLicenseInsert(r)
    \/ \E r \in DOMAIN pc, in \in ActivateInputs : ActivateLicense(r, in[1], in[2])
    \/ \E r \in DOMAIN pc, key \in Keys \cup {KeyEmpty} : VerifyLicense(r, key)
    \/ \E r \in DOMAIN pc, key \in Keys, dataType \in DataTypes,
          data \in Contents \cup {NoData} : UploadVerify(r, key, dataType, data)
    \/ \E r \in DOMAIN pc : UploadCheck(r)
    \/ \E r \in DOMAIN pc : UploadUpsert(r)
    \/ \E r \in DOMAIN pc, key \in Keys, dataType \in DataTypes :
          DownloadVerify(r, key, dataType)
    \/ \E r \in DOMAIN pc : DownloadGet(r)
    \/ \E r \in DOMAIN pc, email \in Emails \cup {EmailEmpty} : ResetEmail(r, email)
    \/ \E r \in DOMAIN pc, in \in WebhookInputs :
          Webhook(r, in[1], in[2], in[3], in[4])

Spec ==
    Init /\ [][Next]_vars

\* The operations that write the users table: request-license,
\* generate-license, activate-license, reset-email and the checkout webhook.
InitLicense ==
    InitWith(InitialStores, MaxReqs)

CheckoutInputs ==
    {TRUE} \X {"checkout.session.completed"} \X Emails \X {"none"}

NextLicense ==
    \/ \E r \in DOMAIN pc, email \in Emails : RequestLicenseSelect(r, email)
    \/ \E r \in DOMAIN pc : RequestLicenseInsert(r)
    \/ \E r \in DOMAIN pc, email \in Emails : GenerateLicenseSelect(r, email)
    \/ \E r \in DOMAIN pc : GenerateLicenseUpdate(r)
    \/ \E r \in DOMAIN pc : GenerateLicenseInsert(r)
    \/ \E r \in DOMAIN pc, in \in ActivateInputs : ActivateLicense(r, in[1], in[2])
    \/ \E r \in DOMAIN pc, email \in Emails : ResetEmail(r, email)
    \/ \E r \in DOMAIN pc, in \in CheckoutInputs :
          Webhook(r, in[1], in[2], in[3], in[4])

SpecLicense ==
    InitLicense /\ [][NextLicense]_vars

\* The sync routes, with the operations that create, re-link and delete the
\* licenses they check.
InitSync ==
    InitWith(InitialStores, MaxReqs)

NextSync ==
    \/ \E r \in DOMAIN pc, key \in Keys, dataType \in DataTypes,
          data \in Contents \cup {NoData} : UploadVerify(r, key, dataType, data)
    \/ \E r \in DOMAIN pc : UploadCheck(r)
    \/ \E r \in DOMAIN pc : UploadUpsert(r)
    \/ \E r \in DOMAIN pc, key \in Keys, dataType \in DataTypes :
          DownloadVerify(r, key, dataType)
    \/ \E r \in DOMAIN pc : DownloadGet(r)
    \/ \E r \in DOMAIN pc, key \in Keys, email \in Emails : ActivateLicense(r, key, email)
    \/ \E r \in DOMAIN pc, email \in Emails : ResetEmail(r, email)

SpecSync ==
    InitSync /\ [][NextSync]_vars

\* The webhook route on every kind of event, signed or not, with the routes
\* that read the licenses it leaves: verify-license and request-license.
InitWebhook ==
    InitWith(InitialStores, MaxReqs)

EventInputs ==
    ({TRUE} \X {"checkout.session.completed"} \X {EmailEmpty, EmailLower, EmailOther}
            \X {"none"})
        \cup ({TRUE} \X {"invoice.payment_succeeded", "charge.refunded"}
                    \X {EmailLower} \X {"none"})
        \cup ({TRUE} \X {"customer.subscription.created"} \X {EmailLower}
                    \X {"active"})
        \cup ({TRUE} \X {"customer.subscription.updated"} \X {EmailLower}
                    \X SubscriptionStatuses)
        \cup ({TRUE} \X {"customer.subscription.deleted"} \X {EmailLower}
                    \X {"canceled"})
        \cup ({FALSE} \X {"checkout.session.completed", "customer.subscription.deleted"}
                     \X {EmailLower} \X {"none"})

NextWebhook ==
    \/ \E r \in DOMAIN pc, in \in EventInputs :
          Webhook(r, in[1], in[2], in[3], in[4])
    \/ \E r \in DOMAIN pc, key \in Keys : VerifyLicense(r, key)
    \/ \E r \in DOMAIN pc, email \in {EmailLower, EmailOther} :
          RequestLicenseSelect(r, email)
    \/ \E r \in DOMAIN pc : RequestLicenseInsert(r)

SpecWebhook ==
    InitWebhook /\ [][NextWebhook]_vars

\* Request-license calls only, up to MaxSame of them running concurrently.
InitReq ==
    InitWith(InitialStores, MaxSame)

NextReq ==
    \/ \E r \in DOMAIN pc, email \in Emails : RequestLicenseSelect(r, email)
    \/ \E r \in DOMAIN pc : RequestLicenseInsert(r)

SpecReq ==
    InitReq /\ [][NextReq]_vars

\* The key derivation alone, called on one email after another.
InitDerive ==
    InitWith({{}}, 1)

NextDerive ==
    \E email \in DeriveInputs : Derive(email)

SpecDerive ==
    InitDerive /\ [][NextDerive]_vars

\* The routes whose store calls can fail while the server is down or silent:
\* verify-license, download, the checkout webhook and request-license.
InitOutage ==
    InitWith(InitialStores, MaxReqs)

NextOutage ==
    \/ \E to \in StoreStates : Outage(to)
    \/ \E r \in DOMAIN pc, key \in Keys : VerifyLicense(r, key)
    \/ \E r \in DOMAIN pc, key \in Keys, dataType \in DataTypes :
          DownloadVerify(r, key, dataType)
    \/ \E r \in DOMAIN pc : DownloadGet(r)
    \/ \E r \in DOMAIN pc :
          Webhook(r, TRUE, "checkout.session.completed", EmailLower, "none")
    \/ \E r \in DOMAIN pc : RequestLicenseSelect(r, EmailLower)
    \/ \E r \in DOMAIN pc : RequestLicenseInsert(r)

SpecOutage ==
    InitOutage /\ [][NextOutage]_vars

\* Uploads while the server goes down or silent.  The event loop resumes
\* every handler whose awaited store call has settled, and a server that
\* answers again and again lets an awaited statement settle; nothing obliges
\* the server to come back.
InitOutageFair ==
    InitWith(InitialStores, MaxReqs)

NextOutageFair ==
    \/ \E to \in StoreStates : Outage(to)
    \/ \E r \in DOMAIN pc, key \in Keys : UploadVerify(r, key, "notes", "c1")
    \/ \E r \in DOMAIN pc : UploadCheck(r)
    \/ \E r \in DOMAIN pc : UploadUpsert(r)

SpecOutageFair ==
    /\ InitOutageFair
    /\ [][NextOutageFair]_vars
    /\ WF_vars(\E r \in 1..MaxReqs : UploadCheck(r))
    /\ SF_vars(\E r \in 1..MaxReqs : UploadUpsert(r))

\* user_data rows that the process finds at startup: one row of type notes
\* for each license of the table.
StoredData(table) ==
    {[license_key |-> u.license_key, data_type |-> "notes", content |-> "c1"] :
        u \in table}

\* The sync routes on a database that already holds data.
InitData ==
    /\ users \in InitialStores
    /\ users0 = users
    /\ user_data = StoredData(users)
    /\ users_id_seq = Cardinality(users)
    /\ InitRequests(MaxReqs)
    /\ Listening

SpecData ==
    InitData /\ [][NextSync]_vars

\* Every route once, on the license of a@b.c.
InitRows ==
    InitWith(InitialStores, MaxReqs)

RowsEvents ==
    {<<TRUE, "checkout.session.completed", EmailLower, "none">>,
     <<TRUE, "customer.subscription.deleted", EmailLower, "canceled">>,
     <<TRUE, "charge.refunded", EmailLower, "none">>,
     <<FALSE, "checkout.session.completed", EmailLower, "none">>}

NextRows ==
    \/ \E r \in DOMAIN pc : RequestLicenseSelect(r, EmailLower)
    \/ \E r \in DOMAIN pc : RequestLicenseInsert(r)
    \/ \E r \in DOMAIN pc : GenerateLicenseSelect(r, EmailLower)
    \/ \E r \in DOMAIN pc : GenerateLicenseUpdate(r)
    \/ \E r \in DOMAIN pc : GenerateLicenseInsert(r)
    \/ \E r \in DOMAIN pc, email \in {EmailLower, EmailOther} :
          ActivateLicense(r, generateEmailBasedLicense(EmailLower), email)
    \/ \E r \in DOMAIN pc : VerifyLicense(r, generateEmailBasedLicense(EmailLower))
    \/ \E r \in DOMAIN pc :
          UploadVerify(r, generateEmailBasedLicense(EmailLower), "notes", "c1")
    \/ \E r \in DOMAIN pc : UploadCheck(r)
    \/ \E r \in DOMAIN pc : UploadUpsert(r)
    \/ \E r \in DOMAIN pc :
          DownloadVerify(r, generateEmailBasedLicense(EmailLower), "notes")
    \/ \E r \in DOMAIN pc : DownloadGet(r)
    \/ \E r \in DOMAIN pc : ResetEmail(r, EmailOther)
    \/ \E r \in DOMAIN pc, in \in RowsEvents :
          Webhook(r, in[1], in[2], in[3], in[4])

SpecRows ==
    InitRows /\ [][NextRows]_vars

\* The process from the start of startServer(), the server up or down, then
\* the routes that setupRoutes() registered.
InitStartup ==
    /\ users \in InitialStores
    /\ users0 = users
    /\ user_data = {}
    /\ users_id_seq = Cardinality(users)
    /\ InitRequests(MaxReqs)
    /\ store \in {"up", "down"}
    /\ startup = "testConnection"
    /\ databaseConnected = FALSE
    /\ routes = "none"

NextStartup ==
    \/ TestConnection
    \/ InitializeDatabase
    \/ SetupRoutes
    \/ \E to \in {"up", "down"} : Outage(to)
    \/ \E r \in DOMAIN pc : Health(r)
    \/ \E r \in DOMAIN pc : VerifyLicense(r, generateEmailBasedLicense(EmailLower))
    \/ \E r \in DOMAIN pc :
          ActivateLicense(r, generateEmailBasedLicense(EmailLower), EmailLower)
    \/ \E r \in DOMAIN pc, op \in {"verify-license", "activate-license"} :
          Fallback(r, op)
    \/ \E r \in DOMAIN pc, op \in {"request-license", "download"} : NotFound(r, op)

SpecStartup ==
    InitStartup /\ [][NextStartup]_vars

\* The /generate page alone, on every referrer and query.
InitGenerate ==
    InitWith({{}}, MaxReqs)

NextGenerate ==
    \E r \in DOMAIN pc, referrer \in Referrers, query \in Queries :
        GeneratePage(r, referrer, query)

SpecGenerate ==
    InitGenerate /\ [][NextGenerate]_vars

\* request-license and generate-license alone, on a table that only they
\* have written: empty, or one row under the key derived from its email
\* (inactive when the operator set it so).
IssuedStores ==
    {{}} \cup {{UserRow(1, generateEmailBasedLicense(e), e, st)} :
                  e \in Emails, st \in Statuses}

InitIssue ==
    InitWith(IssuedStores, MaxReqs)

NextIssue ==
    \/ \E r \in DOMAIN pc, email \in Emails : RequestLicenseSelect(r, email)
    \/ \E r \in DOMAIN pc : RequestLicenseInsert(r)
    \/ \E r \in DOMAIN pc, email \in Emails : GenerateLicenseSelect(r, email)
    \/ \E r \in DOMAIN pc : GenerateLicenseUpdate(r)
    \/ \E r \in DOMAIN pc : GenerateLicenseInsert(r)

SpecIssue ==
    InitIssue /\ [][NextIssue]_vars

\* Every operation that reaches users, and every event kind, from the empty
\* table of a first start.  GenerateLicenseSelect is the step that takes the
\* reactivation branch; the UPDATE behind it can only follow that step.
InitFresh ==
    InitWith({{}}, MaxSame)

FreshEmails ==
    {EmailLower, EmailUpper}

NextFresh ==
    \/ \E r \in DOMAIN pc, email \in FreshEmails : RequestLicenseSelect(r, email)
    \/ \E r \in DOMAIN pc : RequestLicenseInsert(r)
    \/ \E r \in DOMAIN pc, email \in FreshEmails : GenerateLicenseSelect(r, email)
    \/ \E r \in DOMAIN pc : GenerateLicenseInsert(r)
    \/ \E r \in DOMAIN pc :
          ActivateLicense(r, generateEmailBasedLicense(EmailLower), EmailUpper)
    \/ \E r \in DOMAIN pc : ResetEmail(r, EmailLower)
    \/ \E r \in DOMAIN pc, in \in RowsEvents :
          Webhook(r, in[1], in[2], in[3], in[4])

SpecFresh ==
    InitFresh /\ [][NextFresh]_vars

\* One client that waits for each answer before its next call: a checkout
\* event or an activate-license, request-license and reset-email for a@b.c,
\* from the empty table.
Quiet ==
    \A r \in DOMAIN pc : pc[r] \in {"idle", "done"}

InitRoundTrip ==
    InitWith({{}}, MaxSame + 1)

NextRoundTrip ==
    \/ \E r \in DOMAIN pc : Quiet /\ RequestLicenseSelect(r, EmailLower)
    \/ \E r \in DOMAIN pc : RequestLicenseInsert(r)
    \/ \E r \in DOMAIN pc : Quiet /\ ResetEmail(r, EmailLower)
    \/ \E r \in DOMAIN pc :
          Quiet /\ ActivateLicense(r, generateEmailBasedLicense(EmailLower), EmailLower)
    \/ \E r \in DOMAIN pc :
          Quiet /\ Webhook(r, TRUE, "checkout.session.completed", EmailLower, "none")

SpecRoundTrip ==
    InitRoundTrip /\ [][NextRoundTrip]_vars

\* The startup and the routes it registered, with every license and sync
\* route requested and the checkout webhook, which is registered either way.
InitNoDatabase ==
    InitStartup

NextNoDatabase ==
    \/ NextStartup
    \/ \E r \in DOMAIN pc, op \in {"generate-license", "upload", "reset-email"} :
          NotFound(r, op)
    \/ \E r \in DOMAIN pc :
          Webhook(r, TRUE, "checkout.session.completed", EmailLower, "none")

SpecNoDatabase ==
    InitNoDatabase /\ [][NextNoDatabase]_vars

(***************************************************************************)
(* Properties                                                              *)
(***************************************************************************)
\* Two strings that differ at most in the case of their letters.
SameUpToCase(a, b) ==
    /\ Len(a) = Len(b)
    /\ \A i \in 1..Len(a) :
           \/ a[i] = b[i]
           \/ \E n \in 1..26 : {a[i], b[i]} = {LowerAlphabet[n], UpperAlphabet[n]}

\* The rows of a table whose email is `email` in some letter case.
LicensesFor(table, email) ==
    {u \in table : SameUpToCase(u.email, email)}

\* Every request of the run has been answered.
AllDone ==
    \A r \in DOMAIN pc : pc[r] = "done"

\* Every request of the run is a request-license for the string `email`.
AllRequestLicense(email) ==
    \A r \in DOMAIN pc : req[r].op = "request-license" /\ req[r].email = email

\* The startup table holds no license for the email, in any letter case, and
\* no row that holds the email's derived key.
FreshFor(email) ==
    /\ LicensesFor(users0, email) = {}
    /\ \A u \in users0 : u.license_key # generateEmailBasedLicense(email)

\* C1: two sequential request-license calls for the same email, from a store
\* with no license for it: both answer the same licenseKey, the first creates
\* the one row, the second creates nothing and reports created = false.
\* (Request 2 is received once request 1 is answered and nothing else ran.)
C1_SequentialIdempotent ==
    [][(/\ pc[1] = "done"
        /\ pc[2] = "idle"
        /\ pc'[2] # "idle"
        /\ req'[2].email = req[1].email
        /\ FreshFor(req[1].email))
       => (/\ resp[1].status = 200
           /\ Cardinality(LicensesFor(users, req[1].email)) = 1
           /\ pc'[2] = "done"
           /\ resp'[2].status = 200
           /\ resp'[2].licenseKey = resp[1].licenseKey
           /\ users' = users
           /\ resp'[2].created = JsFalse)]_vars

\* C2, as claimed: N concurrent request-license calls for one email, from a
\* store with no license for that email, end with exactly one row for it.
C2_ExactlyOneRowOriginal ==
    \A email \in Emails :
        (AllDone /\ AllRequestLicense(email) /\ LicensesFor(users0, email) = {})
            => Cardinality(LicensesFor(users, email)) = 1

\* C2, amended: N concurrent request-license calls for one email, from a store
\* with no license for that email and no row holding the email's derived key,
\* end in every interleaving with exactly one row for that email.
C2_ExactlyOneRow ==
    \A email \in Emails :
        (AllDone /\ AllRequestLicense(email) /\ FreshFor(email))
            => /\ Cardinality(LicensesFor(users, email)) = 1
               /\ Cardinality(SelectByEmail(users, email)) = 1

\* C2 witness: the calls have raced: one inserted the row, another one's
\* insert was refused.
C2_Witness ==
    \E email \in Emails :
        /\ AllDone /\ AllRequestLicense(email) /\ FreshFor(email)
        /\ \E r1, r2 \in DOMAIN pc :
               /\ resp[r1].message = "License created successfully"
               /\ resp[r2].status = 500

\* C3: N concurrent request-license calls for one email, from a store with no
\* license for it: every call answers success with the same licenseKey.
C3_AllCallsSucceed ==
    \A email \in Emails :
        (AllDone /\ AllRequestLicense(email) /\ FreshFor(email))
            => \A r \in DOMAIN pc :
                   /\ resp[r].status = 200
                   /\ resp[r].licenseKey = resp[1].licenseKey

\* The operations C4 is about.
LicenseOperation(r) ==
    \/ req[r].op \in {"none", "request-license", "generate-license", "activate-license"}
    \/ req[r].op = "webhook" /\ req[r].event = "checkout.session.completed"

\* C4: after any run of request-license, generate-license, activate-license and
\* checkout-completed webhooks on an empty store, the store holds at most one
\* row per lower-cased email.
C4_OneRowPerEmail ==
    (users0 = {} /\ \A r \in DOMAIN pc : LicenseOperation(r))
        => \A u1, u2 \in users : SameUpToCase(u1.email, u2.email) => u1 = u2

\* C5: a request-license for a case variant of an email that has an active
\* license finds that license: it answers 200 with its licenseKey and the store holds
\* no other row for the email.
C5_CaseVariantFindsLicense ==
    \A u \in users0 :
        (pc[1] = "done" /\ req[1].op = "request-license"
            /\ u.status = "active" /\ SameUpToCase(u.email, req[1].email))
            => /\ resp[1].status = 200
               /\ resp[1].licenseKey = u.license_key
               /\ LicensesFor(users, req[1].email) = {u}

\* C6: a request-license for the email of an inactive license answers its
\* licenseKey and leaves the license active.
C6_RequestReactivates ==
    \A u \in users0 :
        (pc[1] = "done" /\ req[1].op = "request-license"
            /\ u.email = req[1].email /\ u.status = "inactive")
            => /\ resp[1].licenseKey = u.license_key
               /\ \A v \in users : v.license_key = u.license_key => v.status = "active"

\* A request-license that was answered with success.
RequestLicenseOk(r) ==
    /\ pc[r] = "done"
    /\ req[r].op = "request-license"
    /\ resp[r].status = 200

\* C7: no two rows share a licenseKey; and request-license calls for two
\* different emails, in any interleaving, get two different keys, each held by
\* a row of its own.
C7_LicenseKeysUnique ==
    /\ \A u1, u2 \in users : u1.license_key = u2.license_key => u1 = u2
    /\ (\A r \in DOMAIN pc : req[r].op \in {"none", "request-license"})
           => \A r1, r2 \in DOMAIN pc :
                  (/\ RequestLicenseOk(r1) /\ RequestLicenseOk(r2)
                   /\ ~SameUpToCase(req[r1].email, req[r2].email))
                  => /\ resp[r1].licenseKey # resp[r2].licenseKey
                     /\ \A r \in {r1, r2} :
                            Cardinality({u \in users :
                                u.license_key = resp[r].licenseKey}) = 1

\* C7 witness: two request-license calls for different emails each created
\* their row.
C7_Witness ==
    \E r1, r2 \in DOMAIN pc :
        /\ RequestLicenseOk(r1) /\ RequestLicenseOk(r2)
        /\ resp[r1].message = "License created successfully"
        /\ resp[r2].message = "License created successfully"
        /\ ~SameUpToCase(req[r1].email, req[r2].email)

\* C8: the derived key depends on the email alone, and not on its letter case:
\* calls with emails equal up to case returned equal keys, whenever made.
C8_DeriveCaseInsensitive ==
    \A i, j \in 1..Len(calls) :
        SameUpToCase(calls[i][1], calls[j][1]) => calls[i][2] = calls[j][2]

\* C8 witness: the key was derived for two case variants of one email.
C8_Witness ==
    \E i, j \in 1..Len(calls) :
        /\ calls[i][1] # calls[j][1]
        /\ SameUpToCase(calls[i][1], calls[j][1])

HexUpper ==
    Digits \cup {"A", "B", "C", "D", "E", "F"}

\* The characters of a key that are not at the positions 5, 10 and 15.
KeyCharacters(key) ==
    SubSeq(key, 1, 4) \o SubSeq(key, 6, 9) \o SubSeq(key, 11, 14)
        \o SubSeq(key, 16, Len(key))

\* C9: a derived key has 19 characters, '-' at the positions 5, 10 and 15 and
\* characters of [A-F0-9] elsewhere, which are the first 16 hex characters, in
\* upper case, of the digest of the lower-cased email.
C9_DerivedKeyFormat ==
    \A i \in 1..Len(calls) :
        LET email == calls[i][1]
            key   == calls[i][2]
        IN  /\ Len(key) = 19
            /\ \A n \in 1..Len(key) :
                   IF n \in {5, 10, 15} THEN key[n] = "-" ELSE key[n] \in HexUpper
            /\ KeyCharacters(key)
                   = toUpperCase(SubSeq(md5hex(toLowerCase(email)), 1, 16))

\* C9 witness: the key of test@example.com was derived, and is
\* 5550-2F40-DC8B-7C76.
C9_Witness ==
    \E i \in 1..Len(calls) :
        /\ calls[i][1] = EmailExample
        /\ calls[i][2] = <<"5","5","5","0","-","2","F","4","0","-",
                           "D","C","8","B","-","7","C","7","6">>

\* The key resolves to a license with status active.
ResolvesToActive(key) ==
    \E u \in users : u.license_key = key /\ u.status = "active"

\* C10: a well-formed upload or download whose licenseKey does not resolve to
\* an active license when the handler checks it is answered 403 at once, and
\* user_data is left as it was.
C10_GateRejects ==
    [][\A r \in DOMAIN pc :
          (/\ pc[r] = "idle"
           /\ pc'[r] # "idle"
           /\ req'[r].op \in {"upload", "download"}
           /\ req'[r].op = "upload" => req'[r].data # NoData
           /\ ~ResolvesToActive(req'[r].licenseKey))
          => (/\ pc'[r] = "done"
              /\ resp'[r].status = 403
              /\ user_data' = user_data)]_vars

\* C10 witness: an upload on the key of an inactive license was answered 403.
C10_Witness ==
    \E r \in DOMAIN pc :
        /\ pc[r] = "done"
        /\ req[r].op = "upload"
        /\ resp[r].status = 403
        /\ \E u \in users : u.license_key = req[r].licenseKey /\ u.status = "inactive"

\* C11: the license of an upload cannot change between the check that admits
\* it and its write: an upload that passed saveUserData's check and has not yet
\* written still has an active license.
C11_CheckAndWriteAtomic ==
    \A r \in DOMAIN pc :
        pc[r] = "up_upsert" => ResolvesToActive(req[r].licenseKey)

\* C12: an activate-license whose licenseKey is already in the store is
\* answered 409 and leaves the users table as it was.
C12_ActivateExistingKeyConflict ==
    [][\A r \in DOMAIN pc :
          (/\ pc[r] = "idle"
           /\ pc'[r] # "idle"
           /\ req'[r].op = "activate-license"
           /\ req'[r].email # EmailEmpty
           /\ \E u \in users : u.license_key = req'[r].licenseKey)
          => (/\ resp'[r].status = 409
              /\ users' = users)]_vars

\* C13: a request-license whose insert is refused because the derived key is
\* already in the store is answered 409.
C13_RequestConflictAnswered409 ==
    [][\A r \in DOMAIN pc :
          (/\ pc[r] = "rl_insert"
           /\ pc'[r] = "done"
           /\ \E u \in users : u.license_key = generateEmailBasedLicense(req[r].email))
          => resp'[r].status = 409]_vars

\* A step of the handler of a request-license or a generate-license.
DerivedKeyStep(r) ==
    /\ pc'[r] # pc[r]
    /\ req'[r].op \in {"request-license", "generate-license"}

\* C14: no step of request-license or generate-license changes the licenseKey
\* or the email of a row; and when the derived key is held by a row of another
\* email, the insert is refused (409 or 500) and the users table is left
\* exactly as it was.
C14_ExistingRowsKept ==
    [][\A r \in DOMAIN pc :
          DerivedKeyStep(r)
          => /\ \A u \in users : \E v \in users' :
                    /\ v.id = u.id
                    /\ v.license_key = u.license_key
                    /\ v.email = u.email
             /\ (/\ pc[r] \in {"rl_insert", "gl_insert"}
                 /\ \E u \in users :
                        /\ u.license_key = generateEmailBasedLicense(req[r].email)
                        /\ u.email # req[r].email)
                => (/\ users' = users
                    /\ pc'[r] = "done"
                    /\ resp'[r].status \in {409, 500})]_vars

\* C14 witness: a request-license and a generate-license were refused on a
\* derived key that a row of another email has held since startup.
C14_Witness ==
    \E r1, r2 \in DOMAIN pc :
        /\ pc[r1] = "done" /\ req[r1].op = "request-license" /\ resp[r1].status = 500
        /\ pc[r2] = "done" /\ req[r2].op = "generate-license" /\ resp[r2].status = 409
        /\ \A r \in {r1, r2} : \E u \in users \cap users0 :
               /\ u.license_key = generateEmailBasedLicense(req[r].email)
               /\ u.email # req[r].email

\* A webhook request is received by slot r in this step.
WebhookReceived(r) ==
    /\ pc[r] = "idle"
    /\ pc'[r] # "idle"
    /\ req'[r].op = "webhook"

\* C15: a webhook request whose signature does not verify is answered 400 and
\* changes neither table (nor the id sequence of users).
C15_BadSignatureRejected ==
    [][\A r \in DOMAIN pc :
          (WebhookReceived(r) /\ ~req'[r].signed)
          => (/\ pc'[r] = "done"
              /\ resp'[r].status = 400
              /\ users' = users
              /\ user_data' = user_data
              /\ users_id_seq' = users_id_seq)]_vars

\* C15 witness: an unsigned checkout-completed event for an email was answered
\* 400.
C15_Witness ==
    \E r \in DOMAIN pc :
        /\ pc[r] = "done"
        /\ req[r].op = "webhook"
        /\ ~req[r].signed
        /\ req[r].event = "checkout.session.completed"
        /\ req[r].email # EmailEmpty
        /\ resp[r].status = 400

\* A verified checkout-completed event for the email is received by slot r.
CheckoutReceived(r) ==
    /\ WebhookReceived(r)
    /\ req'[r].signed
    /\ req'[r].event = "checkout.session.completed"
    /\ req'[r].email # EmailEmpty

\* C16: a verified checkout-completed event for an email that has a license
\* leaves the number of rows of that email as it was, and every one active.
C16_CheckoutKeepsOneLicense ==
    [][\A r \in DOMAIN pc :
          (CheckoutReceived(r) /\ SelectByEmail(users, req'[r].email) # {})
          => (/\ Cardinality(SelectByEmail(users', req'[r].email))
                     = Cardinality(SelectByEmail(users, req'[r].email))
              /\ \A u \in SelectByEmail(users', req'[r].email) :
                     u.status = "active")]_vars

\* C17: a verified checkout-completed event for an email that has no license
\* creates exactly one row for it, active, under the key derived from the
\* email.
C17_CheckoutCreatesDerivedKey ==
    [][\A r \in DOMAIN pc :
          (CheckoutReceived(r) /\ LicensesFor(users, req'[r].email) = {})
          => \E u \in users' :
                 /\ SelectByEmail(users', req'[r].email) = {u}
                 /\ u.status = "active"
                 /\ u.license_key = generateEmailBasedLicense(req'[r].email)]_vars

\* C18: after a verified subscription-deleted event for a customer who has an
\* active license, every license of that customer is inactive.
C18_SubscriptionDeletedDeactivates ==
    [][\A r \in DOMAIN pc :
          (/\ WebhookReceived(r)
           /\ req'[r].signed
           /\ req'[r].event = "customer.subscription.deleted"
           /\ \E u \in SelectByEmail(users, req'[r].email) : u.status = "active")
          => \A u \in SelectByEmail(users', req'[r].email) :
                 u.status = "inactive"]_vars

\* The events that name their customer by id.
IdKeyedEvents ==
    {"invoice.payment_succeeded", "customer.subscription.created",
     "customer.subscription.updated", "customer.subscription.deleted"}

\* C19: a verified payment-succeeded, subscription-created,
\* subscription-updated (any status) or subscription-deleted event changes no
\* row of users or user_data, and is acknowledged with 200.
C19_IdKeyedEventsNoOp ==
    [][\A r \in DOMAIN pc :
          (WebhookReceived(r) /\ req'[r].signed /\ req'[r].event \in IdKeyedEvents)
          => (/\ pc'[r] = "done"
              /\ resp'[r].status = 200
              /\ resp'[r].message = "received"
              /\ users' = users
              /\ user_data' = user_data)]_vars

\* C19 witness: a subscription-deleted event and a past_due
\* subscription-updated event for a customer with an active license were
\* acknowledged.
C19_Witness ==
    \E r1, r2 \in DOMAIN pc :
        /\ pc[r1] = "done" /\ req[r1].op = "webhook" /\ req[r1].signed
        /\ req[r1].event = "customer.subscription.deleted"
        /\ pc[r2] = "done" /\ req[r2].op = "webhook" /\ req[r2].signed
        /\ req[r2].event = "customer.subscription.updated"
        /\ req[r2].subStatus = "past_due"
        /\ resp[r1].status = 200 /\ resp[r2].status = 200
        /\ \E u \in users : u.email = req[r1].email /\ u.status = "active"

\* The event types the switch has a case for.
RecognizedEvents ==
    IdKeyedEvents \cup {"checkout.session.completed"}

\* C20: a verified event of a type the switch has no case for is acknowledged
\* with 200, never an error, and changes nothing in the store.
C20_UnknownEventAccepted ==
    [][\A r \in DOMAIN pc :
          (WebhookReceived(r) /\ req'[r].signed /\ req'[r].event \notin RecognizedEvents)
          => (/\ pc'[r] = "done"
              /\ resp'[r].status = 200
              /\ resp'[r].message = "received"
              /\ users' = users
              /\ user_data' = user_data
              /\ users_id_seq' = users_id_seq)]_vars

\* C20 witness: a charge.refunded event was acknowledged while the store held
\* a license.
C20_Witness ==
    \E r \in DOMAIN pc :
        /\ pc[r] = "done"
        /\ req[r].op = "webhook"
        /\ req[r].signed
        /\ req[r].event = "charge.refunded"
        /\ resp[r].status = 200
        /\ users # {}

\* The store call of this step succeeds: the server answers and the pool has a
\* connection.
StoreAnswers ==
    store = "up" /\ checkedOut < PoolMax

\* A request of the route `op` is received by slot r in this step.
Received(r, op) ==
    /\ pc[r] = "idle"
    /\ pc'[r] # "idle"
    /\ req'[r].op = op

\* C21: a verify-license whose store call fails is answered with a 5xx error,
\* not with the 404 of a key that does not exist.
C21_VerifyOutageIsError ==
    [][\A r \in DOMAIN pc :
          (Received(r, "verify-license") /\ req'[r].licenseKey # KeyEmpty
              /\ ~StoreAnswers)
          => (pc'[r] = "done" /\ resp'[r].status \in {500, 503})]_vars

\* C22: a download whose data read fails, and a verified checkout-completed
\* event whose license insert fails, are answered with a 5xx error, not with
\* a success.
C22_NoSuccessOnStoreFailure ==
    [][\A r \in DOMAIN pc :
          /\ (pc[r] = "dl_get" /\ pc'[r] = "done" /\ ~StoreAnswers)
                 => resp'[r].status \in {500, 503}
          /\ (Received(r, "webhook") /\ req'[r].signed
                 /\ req'[r].event = "checkout.session.completed"
                 /\ req'[r].email # EmailEmpty /\ ~StoreAnswers)
                 => resp'[r].status \in {500, 503}]_vars

\* C23: verify-license never changes the store; and when its query is
\* answered, it answers 200 valid if a row holds the key with status active at
\* that time, and 404 if not.
C23_VerifyExactlyActive ==
    [][\A r \in DOMAIN pc :
          (Received(r, "verify-license") /\ req'[r].licenseKey # KeyEmpty)
          => /\ pc'[r] = "done"
             /\ users' = users
             /\ user_data' = user_data
             /\ users_id_seq' = users_id_seq
             /\ StoreAnswers
                    => resp'[r].status =
                           IF ResolvesToActive(req'[r].licenseKey) THEN 200 ELSE 404]_vars

\* C23 witness: with the server up, verify-license answered 200 on the key of
\* the active license and 404 on another well-formed key.
C23_Witness ==
    \E r1, r2 \in DOMAIN pc :
        /\ pc[r1] = "done" /\ req[r1].op = "verify-license" /\ resp[r1].status = 200
        /\ pc[r2] = "done" /\ req[r2].op = "verify-license" /\ resp[r2].status = 404
        /\ ResolvesToActive(req[r1].licenseKey)
        /\ req[r2].licenseKey # KeyEmpty
        /\ ~ResolvesToActive(req[r2].licenseKey)
        /\ store = "up"
        /\ checkedOut = 0

\* C24: an upload whose license is active when it writes is answered 200 and
\* leaves its content as the one row of (licenseKey, dataType), which a
\* download then returns.
C24_LastWriteWins ==
    [][\A r \in DOMAIN pc :
          (/\ pc[r] = "up_upsert"
           /\ pc'[r] = "done"
           /\ StoreAnswers
           /\ ResolvesToActive(req[r].licenseKey))
          => (/\ resp'[r].status = 200
              /\ \A d \in SelectUserData(user_data', req[r].licenseKey,
                                          req[r].dataType) :
                     d.content = req[r].data
              /\ SelectUserData(user_data', req[r].licenseKey, req[r].dataType)
                     # {})]_vars

C26_DownloadNoneIsSuccess ==
    [][\A r \in DOMAIN pc :
          /\ (Received(r, "download") /\ StoreAnswers
                 /\ ResolvesToActive(req'[r].licenseKey))
                 => pc'[r] = "dl_get"
          /\ (/\ pc[r] = "dl_get"
              /\ pc'[r] = "done"
              /\ SelectUserData(user_data, req[r].licenseKey, req[r].dataType) = {})
                 => (resp'[r].status = 200 /\ resp'[r].data = "null")]_vars

\* C26 witness: a download on an active license without data was answered 200
\* with data null, while another license has a row.
C26_Witness ==
    \E r \in DOMAIN pc :
        /\ pc[r] = "done"
        /\ req[r].op = "download"
        /\ resp[r].status = 200
        /\ resp[r].data = "null"
        /\ ResolvesToActive(req[r].licenseKey)
        /\ user_data # {}

\* C27: every user_data row references a users row that exists.
C27_DataReferencesLicense ==
    \A d \in user_data : \E u \in users : u.license_key = d.license_key

\* C27 witness: reset-email deleted the license that had a user_data row, and
\* the row is gone with it.
C27_Witness ==
    \E r \in DOMAIN pc :
        /\ pc[r] = "done"
        /\ req[r].op = "reset-email"
        /\ resp[r].status = 200
        /\ \E u \in users0 : u.email = req[r].email
        /\ users = {}
        /\ user_data = {}

\* C28: every request received is eventually answered.
C28_EveryRequestAnswered ==
    \A r \in 1..MaxReqs : (pc[r] # "idle") ~> (pc[r] = "done")

\* C29: a step of any route other than reset-email leaves every row of users
\* in the table (under its id and licenseKey).
C29_RowsNeverRemoved ==
    [][(\A r \in DOMAIN pc : pc'[r] # pc[r] => req'[r].op # "reset-email")
          => \A u \in users : \E v \in users' :
                 v.id = u.id /\ v.license_key = u.license_key]_vars

\* C29 witness: an activate-license re-linked the startup row to another
\* email and a checkout event added a row; the startup row is still there.
C29_Witness ==
    \E r1, r2 \in DOMAIN pc, u \in users0, v \in users :
        /\ pc[r1] = "done" /\ req[r1].op = "activate-license" /\ resp[r1].status = 200
        /\ pc[r2] = "done" /\ req[r2].op = "webhook" /\ resp[r2].status = 200
        /\ u.license_key = req[r1].licenseKey
        /\ v.id = u.id /\ v.license_key = u.license_key /\ v.email # u.email
        /\ Cardinality(users) = 2

\* C30: databaseConnected is written only during startup, before the routes
\* are registered; once the server listens, the flag and the registered routes
\* never change, the routes are those the flag selected, and /health reports
\* the flag.
C30_FlagFixedAtStartup ==
    [][/\ databaseConnected' # databaseConnected
              => (startup \in {"testConnection", "initializeDatabase"}
                     /\ routes = "none")
       /\ routes # "none" => routes' = routes
       /\ startup = "listening"
              => (startup' = startup /\ databaseConnected' = databaseConnected)
       /\ startup' = "listening"
              => routes' = (IF databaseConnected' THEN "license" ELSE "fallback")
       /\ \A r \in DOMAIN pc :
              Received(r, "health")
              => resp'[r].message =
                     (IF databaseConnected THEN "connected" ELSE "disconnected")]_vars

\* C30 witness: the startup found the database, the server went down while
\* listening, and /health still answered connected.
C30_Witness ==
    \E r \in DOMAIN pc :
        /\ startup = "listening"
        /\ databaseConnected
        /\ routes = "license"
        /\ store = "down"
        /\ pc[r] = "done"
        /\ req[r].op = "health"
        /\ resp[r].message = "connected"

\* C31: the license form of /generate is served only to a request whose
\* referrer is one of the payment provider's domains or that carries the debug
\* or bypass flag; every other request gets the payment-required page.
C31_GenerateReferrerGated ==
    [][\A r \in DOMAIN pc :
          Received(r, "generate")
          => (resp'[r].message = "Generate BuzzyNotes License"
                 <=> (isFromStripe(req'[r].referrer) \/ req'[r].query # {}))]_vars

\* C32: once no request is in flight, no pool client is checked out.
C32_ConnectionsReleased ==
    (\A r \in DOMAIN pc : pc[r] \in {"idle", "done"}) => checkedOut = 0

\* C33: with request-license and generate-license only, users holds at most
\* one row per lower-cased email.
C33_OneRowPerLowerEmail ==
    \A u1, u2 \in users :
        toLowerCase(u1.email) = toLowerCase(u2.email) => u1 = u2

\* C33 witness: two calls for the two spellings of one email were both past
\* the lookup at once; one created the row and the other was refused.
C33_Witness ==
    \E r1, r2 \in DOMAIN pc :
        /\ users0 = {}
        /\ pc[r1] = "done" /\ pc[r2] = "done"
        /\ req[r1].email # req[r2].email
        /\ toLowerCase(req[r1].email) = toLowerCase(req[r2].email)
        /\ resp[r1].status = 200
        /\ resp[r2].status \in {409, 500}
        /\ Cardinality(users) = 1

\* C34: from an empty table, every users row has status active and no
\* generate-license is on its reactivation branch.
C34_AlwaysActive ==
    /\ \A u \in users : u.status = "active"
    /\ \A r \in DOMAIN pc : pc[r] # "gl_update"

\* C34 witness: a checkout event created the license of a@b.c, a
\* subscription-deleted event for a@b.c followed, and generate-license then
\* found the row active.
C34_Witness ==
    /\ users0 = {}
    /\ \A r \in 1..3 : pc[r] = "done"
    /\ req[1].op = "webhook" /\ req[1].event = "checkout.session.completed"
    /\ req[1].signed /\ req[1].email = EmailLower
    /\ req[2].op = "webhook" /\ req[2].event = "customer.subscription.deleted"
    /\ req[2].signed /\ req[2].email = EmailLower
    /\ req[3].op = "generate-license" /\ req[3].email = EmailLower
    /\ resp[3].status = 200
    /\ resp[3].message = "License already exists for this email"
    /\ \E u \in users : u.email = EmailLower /\ u.status = "active"

\* Slot r holds the only request in flight: every earlier request was
\* answered in the step that received it, and none came after.
OnlyInFlight(r) ==
    \A r2 \in DOMAIN pc \ {r} :
        /\ r2 < r => (pc[r2] = "done"
                        /\ req[r2].op \in {"activate-license", "reset-email", "webhook"})
        /\ r2 > r => pc[r2] = "idle"

\* C35: with no other request in flight and the store answering, a
\* request-license with a valid email is answered 200 with a licenseKey,
\* whatever operations came before.
C35_RequestAlwaysSucceeds ==
    [][\A r \in DOMAIN pc :
          (/\ pc'[r] = "done"
           /\ pc[r] # "done"
           /\ req'[r].op = "request-license"
           /\ emailRegex(req'[r].email)
           /\ OnlyInFlight(r)
           /\ StoreAnswers)
          => (resp'[r].status = 200 /\ resp'[r].licenseKey # KeyEmpty)]_vars

\* C36: request-license, reset-email and request-license again for one
\* email, one after the other: the second request-license returns the key of
\* the first, creates a new row, and that license has no user_data.
C36_ResetRoundTrip ==
    \A r \in DOMAIN pc :
        (/\ r + 2 \in DOMAIN pc
         /\ \A i \in r..(r + 2) : pc[i] = "done" /\ req[i].email = req[r].email
         /\ req[r].op = "request-license" /\ resp[r].status = 200
         /\ req[r + 1].op = "reset-email" /\ resp[r + 1].status = 200
         /\ req[r + 2].op = "request-license"
         /\ \A i \in DOMAIN pc : i > r + 2 => pc[i] = "idle")
        => (/\ resp[r + 2].status = 200
            /\ resp[r + 2].message = "License created successfully"
            /\ resp[r + 2].licenseKey = resp[r].licenseKey
            /\ HasKey(users, resp[r + 2].licenseKey)
            /\ \A d \in user_data : d.license_key # resp[r + 2].licenseKey)

\* C37: when the startup did not reach the store, verify-license and
\* activate-license are answered 503, the other license and sync routes are
\* answered 404, and none of them takes a pool client or changes a table.
C37_NoDatabaseRoutes ==
    [][\A r \in DOMAIN pc :
          (/\ ~databaseConnected
           /\ pc[r] = "idle"
           /\ pc'[r] # "idle"
           /\ req'[r].op \in {"verify-license", "activate-license", "request-license",
                              "generate-license", "upload", "download", "reset-email"})
          => (/\ pc'[r] = "done"
              /\ resp'[r].status =
                     (IF req'[r].op \in {"verify-license", "activate-license"}
                      THEN 503 ELSE 404)
              /\ users' = users
              /\ user_data' = user_data
              /\ users_id_seq' = users_id_seq
              /\ checkedOut' = checkedOut)]_vars

\* C37 witness: the startup found no database, the server came back, and a
\* verify-license was answered 503 and an upload 404.
C37_Witness ==
    \E r1, r2 \in DOMAIN pc :
        /\ startup = "listening"
        /\ ~databaseConnected
        /\ store = "up"
        /\ pc[r1] = "done" /\ req[r1].op = "verify-license" /\ resp[r1].status = 503
        /\ pc[r2] = "done" /\ req[r2].op = "upload" /\ resp[r2].status = 404

====
